---------------------------- MODULE Spec2Model ----------------------------
(***************************************************************************)
(* A model of libmacaroon-rs: the macaroon builder (src/src/macaroon.rs),  *)
(* the three serialization codecs (src/src/serialization.rs) and the       *)
(* verifier (src/src/verifier.rs).                                         *)
(*                                                                         *)
(* All data is bytes: a String or a Vec<u8> is a sequence over 0..255, an  *)
(* Option<T> is a record [some, val].  The external primitives are         *)
(* modelled at the byte level by keyed toy functions of the same shapes:   *)
(* HMAC-SHA256 is a deterministic keyed digest into 32 bytes, secretbox is *)
(* a 16-byte authenticator followed by a keystream cipher.                 *)
(***************************************************************************)
EXTENDS Integers, Sequences, FiniteSets, Bags, TLC

(***************************************************************************)
(* Bytes, options, results                                                 *)
(***************************************************************************)
None == [some |-> FALSE, val |-> <<>>]

Some(v) == [some |-> TRUE, val |-> v]

Min(a, b) == IF a < b THEN a ELSE b

\* s[from..] (1-based, Rust's &s[from-1..]); empty when from is past the end.
Drop(s, n) == SubSeq(s, n + 1, Len(s))

Take(s, n) == SubSeq(s, 1, Min(n, Len(s)))

Repeat(b, n) == [i \in 1..n |-> b]

(***************************************************************************)
(* HMAC-SHA256 (sodiumoxide hmacsha256::authenticate) as a keyed digest:   *)
(* two position-weighted sums over key || text, spread over 32 bytes.  The *)
(* first six bytes of a tag carry the two sums, so two tags are equal      *)
(* exactly when the sums are.                                              *)
(***************************************************************************)
TAG_BYTES == 32

Weight(i, c) == (((i * c + 17) * (i + c)) % 8191) + 1

\* the sum over i of (s[i] + 1) * Weight(i, c), and the length
Digest(s, c) ==
    (BagCardinality([i \in 1..Len(s) |-> (s[i] + 1) * Weight(i, c)]) + Len(s) * 8191)
        % 8388593

Spread(a, b) ==
    [i \in 1..TAG_BYTES |->
        CASE i = 1 -> a % 256
          [] i = 2 -> (a \div 256) % 256
          [] i = 3 -> (a \div 65536) % 256
          [] i = 4 -> b % 256
          [] i = 5 -> (b \div 256) % 256
          [] i = 6 -> (b \div 65536) % 256
          [] OTHER -> ((a % 65536) * i + (b % 65536) * (i + 7) + i) % 256]

hmac(key, text) ==
    LET s == key \o text
        a == Digest(s, 131)
        b == Digest(s, 137)
    IN  Spread(a, b)

\* Result<[u8; 32], MacaroonError>
hmac_vec(key, text) ==
    IF Len(key) # 32 THEN [ok |-> FALSE, val |-> <<>>]
    ELSE [ok |-> TRUE, val |-> hmac(key, text)]

\* A faulty hmac2: the two texts are hashed in one piece.
hmac2_flat(key, text1, text2) == hmac_vec(key, text1 \o text2)

hmac2(key, text1, text2) ==
    LET tmp1 == hmac_vec(key, text1)
        tmp2 == hmac_vec(key, text2)
    IN  IF ~tmp1.ok THEN tmp1
        ELSE IF ~tmp2.ok THEN tmp2
        ELSE hmac_vec(key, tmp1.val \o tmp2.val)

\* "macaroons-key-generator" and nine NUL bytes
KEY_GENERATOR ==
    <<109, 97, 99, 97, 114, 111, 111, 110, 115, 45, 107, 101, 121, 45,
      103, 101, 110, 101, 114, 97, 116, 111, 114>> \o Repeat(0, 9)

generate_derived_key(key) == hmac_vec(KEY_GENERATOR, key)

(***************************************************************************)
(* secretbox (sodiumoxide crypto::secretbox): seal(m, n, k) is a 16-byte   *)
(* authenticator over the nonce and the ciphertext, then the ciphertext;   *)
(* the nonce is not part of the output.                                    *)
(***************************************************************************)
MACBYTES == 16

NONCEBYTES == 24

Keystream(n, k) == hmac(k, <<1>> \o n)

AddStream(m, ks) == [i \in 1..Len(m) |-> (m[i] + ks[((i - 1) % TAG_BYTES) + 1]) % 256]

SubStream(c, ks) ==
    [i \in 1..Len(c) |-> (c[i] + 256 - ks[((i - 1) % TAG_BYTES) + 1]) % 256]

secretbox_body(m, n, k) == AddStream(m, Keystream(n, k))

secretbox_plain(c, n, k) == SubStream(c, Keystream(n, k))

secretbox_mac(c, n, k) == Take(hmac(k, <<2>> \o n \o c), MACBYTES)

secretbox_seal(m, n, k) ==
    LET c == secretbox_body(m, n, k) IN secretbox_mac(c, n, k) \o c

\* Result<Vec<u8>, ()>
secretbox_open(c, n, k) ==
    IF Len(c) < MACBYTES \/ Take(c, MACBYTES) # secretbox_mac(Drop(c, MACBYTES), n, k)
    THEN [ok |-> FALSE, val |-> <<>>]
    ELSE [ok |-> TRUE, val |-> secretbox_plain(Drop(c, MACBYTES), n, k)]

(***************************************************************************)
(* crypto::encrypt and crypto::decrypt.  The crypto module is not among    *)
(* the sources; these are the seal and open of the specification's section *)
(* 4.1: seal puts the nonce in front of the ciphertext, open takes it off. *)
(***************************************************************************)
encrypt(key, nonce, plaintext) == nonce \o secretbox_seal(plaintext, nonce, key)

decrypt(key, data) ==
    IF Len(key) # 32 \/ Len(data) < NONCEBYTES + MACBYTES
    THEN [ok |-> FALSE, val |-> <<>>]
    ELSE secretbox_open(Drop(data, NONCEBYTES), Take(data, NONCEBYTES), key)

(***************************************************************************)
(* Caveat and Macaroon (macaroon.rs)                                       *)
(***************************************************************************)
Caveat(id, verifier_id, location) ==
    [id |-> id, verifier_id |-> verifier_id, location |-> location]

\* Macaroon's Default::default()
DefaultMacaroon ==
    [location |-> None, identifier |-> <<>>, signature |-> <<>>, caveats |-> <<>>]

\* Caveat::validate: Err(BadMacaroon) for an empty id
Caveat_validate(caveat) == caveat.id # <<>>

Caveat_new(id, verifier_id, location) ==
    LET caveat == Caveat(id, verifier_id, location)
    IN  [ok |-> Caveat_validate(caveat), val |-> caveat]

\* Macaroon::validate
validate(macaroon) == macaroon.identifier # <<>> /\ macaroon.signature # <<>>

\* Macaroon::create: Result<Macaroon, MacaroonError>
create(location, key, identifier) ==
    LET derived_key == generate_derived_key(key)
        macaroon == [location |-> Some(location), identifier |-> identifier,
                     signature |-> hmac(derived_key.val, identifier),
                     caveats |-> <<>>]
    IN  IF ~derived_key.ok THEN [ok |-> FALSE, mac |-> DefaultMacaroon]
        ELSE [ok |-> validate(macaroon), mac |-> macaroon]

\* Macaroon::add_first_party_caveat: the result and self after the call.  The
\* signature is assigned before Caveat::new is tried.
\* Macaroon::verify: Ok(true), whatever the macaroon and the verifier
verify(self, verifier) == [ok |-> TRUE, val |-> TRUE]

add_first_party_caveat(self, predicate) ==
    LET sig == hmac_vec(self.signature, predicate)
        signed == [self EXCEPT !.signature = sig.val]
        caveat == Caveat_new(predicate, None, None)
    IN  IF ~sig.ok THEN [ok |-> FALSE, mac |-> self]
        ELSE IF ~caveat.ok THEN [ok |-> FALSE, mac |-> signed]
        ELSE [ok |-> TRUE,
              mac |-> [signed EXCEPT !.caveats = Append(self.caveats, caveat.val)]]

\* Macaroon::add_third_party_caveat, nonce being what secretbox::gen_nonce()
\* returned: secretbox::seal(m = self.signature, n = nonce, k = derived_key).
add_third_party_caveat(self, location, key, id, nonce) ==
    LET derived_key == generate_derived_key(key)
        vid == secretbox_seal(self.signature, nonce, derived_key.val)
        signature == hmac2(self.signature, vid, id)
        caveat == Caveat_new(id, Some(vid), Some(location))
    IN  IF ~derived_key.ok \/ ~signature.ok \/ ~caveat.ok
        THEN [ok |-> FALSE, mac |-> self]
        ELSE [ok |-> TRUE,
              mac |-> [self EXCEPT !.caveats = Append(self.caveats, caveat.val),
                                   !.signature = signature.val]]

(***************************************************************************)
(* Strings: String::from_utf8 and str::trim                                *)
(***************************************************************************)
IsCont(b) == b >= 128 /\ b <= 191

\* the continuation bytes a lead byte asks for; 0 for ASCII, -1 for a byte
\* that starts no character
Need(b) ==
    IF b < 128 THEN 0
    ELSE IF b >= 194 /\ b <= 223 THEN 1
    ELSE IF b >= 224 /\ b <= 239 THEN 2
    ELSE IF b >= 240 /\ b <= 244 THEN 3
    ELSE -1

\* the range of the first continuation byte after lead byte b
SecondOk(b, c) ==
    CASE b = 224 -> c >= 160 /\ c <= 191
      [] b = 237 -> c >= 128 /\ c <= 159
      [] b = 240 -> c >= 144 /\ c <= 191
      [] b = 244 -> c >= 128 /\ c <= 143
      [] OTHER -> IsCont(c)

Utf8OkAt(s, i) ==
    IF IsCont(s[i])
    THEN \E j \in 1..3 :
            /\ i - j >= 1
            /\ Need(s[i - j]) >= j
            /\ \A k \in (i - j + 1)..(i - 1) : IsCont(s[k])
    ELSE /\ Need(s[i]) >= 0
         /\ i + Need(s[i]) <= Len(s)
         /\ \A k \in (i + 1)..(i + Need(s[i])) : IsCont(s[k])
         /\ Need(s[i]) > 0 => SecondOk(s[i], s[i + 1])

\* String::from_utf8(bytes).is_ok()
IsUtf8(s) == \A i \in 1..Len(s) : Utf8OkAt(s, i)

\* char::is_whitespace for the ASCII range: \t \n \v \f \r and space
IsSpace(b) == (b >= 9 /\ b <= 13) \/ b = 32

\* str::trim on an ASCII-delimited string
trim(s) ==
    LET keep == {i \in 1..Len(s) : ~IsSpace(s[i])}
    IN  IF keep = {} THEN <<>>
        ELSE SubSeq(s, CHOOSE i \in keep : \A j \in keep : i <= j,
                       CHOOSE i \in keep : \A j \in keep : i >= j)

(***************************************************************************)
(* Base64 (rustc_serialize): to_base64(STANDARD) and from_base64           *)
(***************************************************************************)
Pow2(k) ==
    CASE k = 0 -> 1 [] k = 1 -> 2 [] k = 2 -> 4 [] k = 3 -> 8 [] k = 4 -> 16
      [] k = 5 -> 32 [] k = 6 -> 64 [] k = 7 -> 128 [] OTHER -> 256

\* the STANDARD alphabet
Base64Char(v) ==
    IF v < 26 THEN 65 + v
    ELSE IF v < 52 THEN 97 + (v - 26)
    ELSE IF v < 62 THEN 48 + (v - 52)
    ELSE IF v = 62 THEN 43
    ELSE 47

\* DECODE_TABLE: both alphabets; -1 for a byte of neither
Base64Code(c) ==
    IF c >= 65 /\ c <= 90 THEN c - 65
    ELSE IF c >= 97 /\ c <= 122 THEN c - 97 + 26
    ELSE IF c >= 48 /\ c <= 57 THEN c - 48 + 52
    ELSE IF c = 43 \/ c = 45 THEN 62
    ELSE IF c = 47 \/ c = 95 THEN 63
    ELSE -1

ByteAt(s, i) == IF i <= Len(s) THEN s[i] ELSE 0

to_base64(bytes) ==
    LET n == Len(bytes)
        Sextet(j) ==
            LET g == (j - 1) \div 4
                b1 == ByteAt(bytes, 3 * g + 1)
                b2 == ByteAt(bytes, 3 * g + 2)
                b3 == ByteAt(bytes, 3 * g + 3)
            IN  CASE (j - 1) % 4 = 0 -> b1 \div 4
                  [] (j - 1) % 4 = 1 -> (b1 % 4) * 16 + b2 \div 16
                  [] (j - 1) % 4 = 2 -> (b2 % 16) * 4 + b3 \div 64
                  [] OTHER -> b3 % 64
        \* the padding: a character whose first input byte is past the end
        Padded(j) == 3 * ((j - 1) \div 4) + ((j - 1) % 4) > n
    IN  [j \in 1..(4 * ((n + 2) \div 3)) |->
            IF Padded(j) THEN 61 ELSE Base64Char(Sextet(j))]

IsNewline(c) == c = 10 \/ c = 13

NotNewline(c) == ~IsNewline(c)

\* Result<Vec<u8>, FromBase64Error>
from_base64(text) ==
    LET n == Len(text)
        eqs == {i \in 1..n : text[i] = 61}
        stop == IF eqs = {} THEN n + 1 ELSE CHOOSE i \in eqs : \A j \in eqs : i <= j
        body == SelectSeq(SubSeq(text, 1, stop - 1), NotNewline)
        k == Len(body)
        CodeAt(i) == IF i <= k THEN Base64Code(body[i]) ELSE 0
        Octet(j) ==
            LET g == (j - 1) \div 3
                c1 == CodeAt(4 * g + 1)
                c2 == CodeAt(4 * g + 2)
                c3 == CodeAt(4 * g + 3)
                c4 == CodeAt(4 * g + 4)
            IN  CASE (j - 1) % 3 = 0 -> c1 * 4 + c2 \div 16
                  [] (j - 1) % 3 = 1 -> (c2 % 16) * 16 + c3 \div 4
                  [] OTHER -> (c3 % 4) * 64 + c4
        outlen == 3 * (k \div 4) + (IF k % 4 = 0 THEN 0 ELSE (k % 4) - 1)
    IN  IF \/ \E i \in 1..k : Base64Code(body[i]) < 0
           \/ \E i \in (stop + 1)..n : text[i] # 61 /\ ~IsNewline(text[i])
           \/ k % 4 = 1
        THEN [ok |-> FALSE, val |-> <<>>]
        ELSE [ok |-> TRUE, val |-> [j \in 1..outlen |-> Octet(j)]]

(***************************************************************************)
(* Serialization, version 1: base64 of a run of packets                    *)
(***************************************************************************)
LOCATION_V1 == <<108, 111, 99, 97, 116, 105, 111, 110>>

IDENTIFIER_V1 == <<105, 100, 101, 110, 116, 105, 102, 105, 101, 114>>

SIGNATURE_V1 == <<115, 105, 103, 110, 97, 116, 117, 114, 101>>

CID_V1 == <<99, 105, 100>>

VID_V1 == <<118, 105, 100>>

CL_V1 == <<99, 108>>

HEADER_SIZE_V1 == 4

\* Result<Macaroon, MacaroonError>, or the panic of an index out of range
Fail(kind) == [kind |-> kind, mac |-> DefaultMacaroon]

Done(macaroon) == [kind |-> "ok", mac |-> macaroon]

DefaultCaveat == Caveat(<<>>, None, None)

to_hex_char(value) == IF value < 10 THEN 48 + value ELSE 87 + value

packet_header(size) ==
    << to_hex_char((size \div 4096) % 16), to_hex_char((size \div 256) % 16),
       to_hex_char((size \div 16) % 16), to_hex_char(size % 16) >>

serialize_as_packet(tag, value) ==
    packet_header(HEADER_SIZE_V1 + 2 + Len(tag) + Len(value))
        \o tag \o <<32>> \o value \o <<10>>

serialize_caveat_v1(caveat) ==
    serialize_as_packet(CID_V1, caveat.id)
        \o (IF caveat.verifier_id.some
            THEN serialize_as_packet(VID_V1, caveat.verifier_id.val) ELSE <<>>)
        \o (IF caveat.location.some
            THEN serialize_as_packet(CL_V1, caveat.location.val) ELSE <<>>)

RECURSIVE serialize_caveats_v1(_, _)
serialize_caveats_v1(caveats, i) ==
    IF i > Len(caveats) THEN <<>>
    ELSE serialize_caveat_v1(caveats[i]) \o serialize_caveats_v1(caveats, i + 1)

serialize_v1(macaroon) ==
    to_base64(
        (IF macaroon.location.some
         THEN serialize_as_packet(LOCATION_V1, macaroon.location.val) ELSE <<>>)
        \o serialize_as_packet(IDENTIFIER_V1, macaroon.identifier)
        \o serialize_caveats_v1(macaroon.caveats, 1)
        \o serialize_as_packet(SIGNATURE_V1, macaroon.signature))

HexDigit(c) ==
    IF c >= 48 /\ c <= 57 THEN c - 48
    ELSE IF c >= 97 /\ c <= 102 THEN c - 87
    ELSE IF c >= 65 /\ c <= 70 THEN c - 55
    ELSE -1

\* usize::from_str_radix(hex, 16) on the four header bytes
from_str_radix(hex) ==
    LET digits == IF hex[1] = 43 THEN Drop(hex, 1) ELSE hex
        n == Len(digits)
    IN  IF \E i \in 1..n : HexDigit(digits[i]) < 0
        THEN [ok |-> FALSE, val |-> 0]
        ELSE [ok |-> TRUE,
              val |-> IF n = 4
                      THEN HexDigit(digits[1]) * 4096 + HexDigit(digits[2]) * 256
                               + HexDigit(digits[3]) * 16 + HexDigit(digits[4])
                      ELSE HexDigit(digits[1]) * 256 + HexDigit(digits[2]) * 16
                               + HexDigit(digits[3])]

\* the index, counted from 0, of the first space
get_split_index(packet) ==
    LET spaces == {i \in 1..Len(packet) : packet[i] = 32}
    IN  IF spaces = {} THEN [ok |-> FALSE, val |-> 0]
        ELSE [ok |-> TRUE, val |-> (CHOOSE i \in spaces : \A j \in spaces : i <= j) - 1]

Packet(key, value) == [key |-> key, value |-> value]

RECURSIVE deserialize_as_packets(_, _)
deserialize_as_packets(data, packets) ==
    IF Len(data) = 0 THEN [kind |-> "ok", val |-> packets]
    ELSE IF Len(data) < HEADER_SIZE_V1 THEN [kind |-> "panic", val |-> <<>>]
    ELSE IF ~IsUtf8(SubSeq(data, 1, 4)) \/ ~from_str_radix(SubSeq(data, 1, 4)).ok
    THEN [kind |-> "err", val |-> <<>>]
    ELSE LET size == from_str_radix(SubSeq(data, 1, 4)).val
             packet_data == SubSeq(data, 5, size)
             index == get_split_index(packet_data)
         IN  IF size < 4 \/ size > Len(data) THEN [kind |-> "panic", val |-> <<>>]
             ELSE IF ~index.ok \/ ~IsUtf8(SubSeq(packet_data, 1, index.val))
             THEN [kind |-> "err", val |-> <<>>]
             ELSE deserialize_as_packets(
                      Drop(data, size),
                      Append(packets, Packet(SubSeq(packet_data, 1, index.val),
                                             Drop(packet_data, index.val + 1))))

\* the loop of deserialize_v1 over the packets, from packet i on
RECURSIVE deserialize_v1_packets(_, _, _, _)
deserialize_v1_packets(packets, i, macaroon, caveat) ==
    IF i > Len(packets) THEN Done(macaroon)
    ELSE LET packet == packets[i]
             text == trim(packet.value)
         IN  CASE packet.key = LOCATION_V1 ->
                    IF ~IsUtf8(packet.value) THEN Fail("err")
                    ELSE deserialize_v1_packets(packets, i + 1,
                             [macaroon EXCEPT !.location = Some(text)], caveat)
               [] packet.key = IDENTIFIER_V1 ->
                    IF ~IsUtf8(packet.value) THEN Fail("err")
                    ELSE deserialize_v1_packets(packets, i + 1,
                             [macaroon EXCEPT !.identifier = text], caveat)
               [] packet.key = SIGNATURE_V1 ->
                    IF Len(packet.value) < 32 THEN Fail("panic")
                    ELSE deserialize_v1_packets(packets, i + 1,
                             [macaroon EXCEPT
                                 !.caveats = IF caveat.id # <<>> THEN Append(@, caveat) ELSE @,
                                 !.signature = SubSeq(packet.value, 1, 32)],
                             IF caveat.id # <<>> THEN DefaultCaveat ELSE caveat)
               [] packet.key = CID_V1 ->
                    IF caveat.id = <<>>
                    THEN IF ~IsUtf8(packet.value) THEN Fail("err")
                         ELSE deserialize_v1_packets(packets, i + 1, macaroon,
                                  [caveat EXCEPT !.id = text])
                    ELSE deserialize_v1_packets(packets, i + 1,
                             [macaroon EXCEPT !.caveats = Append(@, caveat)],
                             DefaultCaveat)
               [] packet.key = VID_V1 ->
                    IF ~IsUtf8(packet.value) THEN Fail("err")
                    ELSE deserialize_v1_packets(packets, i + 1, macaroon,
                             [caveat EXCEPT !.verifier_id = Some(text)])
               [] packet.key = CL_V1 ->
                    IF ~IsUtf8(packet.value) THEN Fail("err")
                    ELSE deserialize_v1_packets(packets, i + 1, macaroon,
                             [caveat EXCEPT !.location = Some(text)])
               [] OTHER -> Fail("err")

deserialize_v1(base64) ==
    LET data == from_base64(base64)
        packets == deserialize_as_packets(data.val, <<>>)
    IN  IF ~IsUtf8(base64) \/ ~data.ok THEN Fail("err")
        ELSE IF packets.kind # "ok" THEN Fail(packets.kind)
        ELSE deserialize_v1_packets(packets.val, 1, DefaultMacaroon, DefaultCaveat)

(***************************************************************************)
(* Serialization, version 2: tagged fields with varint lengths             *)
(***************************************************************************)
EOS_V2 == 0

LOCATION_V2 == 1

IDENTIFIER_V2 == 2

VID_V2 == 4

SIGNATURE_V2 == 6

VARINT_PACK_SIZE == 128

RECURSIVE varint_size(_)
varint_size(size) ==
    IF size >= VARINT_PACK_SIZE
    THEN <<(size % VARINT_PACK_SIZE) + VARINT_PACK_SIZE>>
             \o varint_size(size \div VARINT_PACK_SIZE)
    ELSE <<size>>

\* A faulty serialize_field_v2: the length is written as one byte
serialize_field_v2_short(tag, value) == <<tag, Len(value) % 256>> \o value

serialize_field_v2(tag, value) == <<tag>> \o varint_size(Len(value)) \o value

serialize_caveat_v2(caveat) ==
    (IF caveat.location.some
     THEN serialize_field_v2(LOCATION_V2, caveat.location.val) ELSE <<>>)
    \o serialize_field_v2(IDENTIFIER_V2, caveat.id)
    \o (IF caveat.verifier_id.some
        THEN serialize_field_v2(VID_V2, caveat.verifier_id.val) ELSE <<>>)
    \o <<EOS_V2>>

RECURSIVE serialize_caveats_v2(_, _)
serialize_caveats_v2(caveats, i) ==
    IF i > Len(caveats) THEN <<>>
    ELSE serialize_caveat_v2(caveats[i]) \o serialize_caveats_v2(caveats, i + 1)

serialize_v2(macaroon) ==
    <<2>>
    \o (IF macaroon.location.some
        THEN serialize_field_v2(LOCATION_V2, macaroon.location.val) ELSE <<>>)
    \o serialize_field_v2(IDENTIFIER_V2, macaroon.identifier)
    \o <<EOS_V2>>
    \o serialize_caveats_v2(macaroon.caveats, 1)
    \o <<EOS_V2>>
    \o serialize_field_v2(SIGNATURE_V2, macaroon.signature)

\* a step of V2Deserializer: the outcome, the value read, the index after it
Read(kind, val, index) == [kind |-> kind, val |-> val, index |-> index]

\* data.len() - 1 underflows on empty data: a panic with overflow checks,
\* and an index out of range, so a panic too, without them
get_byte(data, index) ==
    IF Len(data) = 0 THEN Read("panic", 0, index)
    ELSE IF index > Len(data) - 1 THEN Read("err", 0, index)
    ELSE Read("ok", data[index + 1], index + 1)

get_tag(data, index) == get_byte(data, index)

get_eos(data, index) ==
    LET eos == get_byte(data, index)
    IN  IF eos.kind = "ok" /\ eos.val # EOS_V2 THEN Read("err", 0, index) ELSE eos

\* a | b on two bytes
RECURSIVE BitOr(_, _, _)
BitOr(a, b, k) ==
    IF k > 7 THEN 0
    ELSE (IF (a \div Pow2(k)) % 2 = 1 \/ (b \div Pow2(k)) % 2 = 1 THEN Pow2(k) ELSE 0)
             + BitOr(a, b, k + 1)

\* byte << shift on a u8: with overflow checks a shift of 8 or more panics,
\* without them the shift is taken modulo 8; the result keeps its low 8 bits
ShlU8(byte, shift, checked) ==
    IF shift >= 8 /\ checked THEN [ok |-> FALSE, val |-> 0]
    ELSE [ok |-> TRUE, val |-> (byte * Pow2(shift % 8)) % 256]

\* the loop of get_field_size, from the given size and shift on
RECURSIVE get_field_size_loop(_, _, _, _, _)
get_field_size_loop(data, index, size, shift, checked) ==
    IF shift > 63 THEN Read("err", 0, index)
    ELSE LET byte == get_byte(data, index)
             part == ShlU8(byte.val % 128, shift, checked)
         IN  IF byte.kind # "ok" THEN byte
             ELSE IF ~part.ok THEN Read("panic", 0, index)
             ELSE IF byte.val >= 128
             THEN get_field_size_loop(data, byte.index, BitOr(size, part.val, 0),
                                      shift + 7, checked)
             ELSE Read("ok", BitOr(size, part.val, 0), byte.index)

get_field_size(data, index, checked) == get_field_size_loop(data, index, 0, 0, checked)

\* get_field once the size has been read: the bytes of the field
field_of_size(data, index, size) ==
    IF size.kind # "ok" THEN Read(size.kind, <<>>, index)
    ELSE IF size.val + size.index > Len(data) THEN Read("err", <<>>, index)
    ELSE Read("ok", SubSeq(data, size.index + 1, size.index + size.val),
              size.index + size.val)

get_field(data, index, checked) ==
    field_of_size(data, index, get_field_size(data, index, checked))

\* try_utf8! on a field that has been read
try_utf8(field, index) ==
    IF field.kind = "ok" /\ ~IsUtf8(field.val) THEN Read("err", <<>>, index)
    ELSE field

\* try_utf8!(try!(deserializer.get_field()))
get_field_utf8(data, index, checked) ==
    try_utf8(get_field(data, index, checked), index)

\* what a section starts with: an optional location field, then the
\* identifier field that must follow; tag is the tag already read
Section(kind, location, id, index) ==
    [kind |-> kind, location |-> location, id |-> id, index |-> index]

\* the identifier field read after a location field
section_identifier(location, field) ==
    Section(field.kind, Some(location.val), field.val, field.index)

\* the tag read after a location field: it must be the identifier tag
section_tag(data, tag, location, tag2, checked) ==
    IF tag2.kind # "ok" THEN Section(tag2.kind, None, <<>>, tag.index)
    ELSE IF tag2.val # IDENTIFIER_V2 THEN Section("err", None, <<>>, tag.index)
    ELSE section_identifier(location, get_field_utf8(data, tag2.index, checked))

\* the location field has been read
section_location(data, tag, location, checked) ==
    IF location.kind # "ok" THEN Section(location.kind, None, <<>>, tag.index)
    ELSE section_tag(data, tag, location, get_tag(data, location.index), checked)

\* the identifier field read first, without a location
section_plain(field) == Section(field.kind, None, field.val, field.index)

deserialize_v2_section(data, tag, checked) ==
    IF tag.val = IDENTIFIER_V2
    THEN section_plain(get_field_utf8(data, tag.index, checked))
    ELSE IF tag.val # LOCATION_V2 THEN Section("err", None, <<>>, tag.index)
    ELSE section_location(data, tag, get_field_utf8(data, tag.index, checked), checked)

RECURSIVE deserialize_v2_caveats(_, _, _, _)

\* the EOS read after a caveat's verifier id
caveat_eos(data, tag, macaroon, caveat, eos, checked) ==
    IF eos.kind # "ok" THEN Fail(eos.kind) @@ [index |-> tag.index]
    ELSE deserialize_v2_caveats(
             data, get_tag(data, eos.index),
             [macaroon EXCEPT !.caveats = Append(@, caveat)], checked)

\* the verifier id field of a caveat has been read
caveat_vid(data, tag, macaroon, caveat, field, checked) ==
    IF field.kind # "ok" THEN Fail(field.kind) @@ [index |-> tag.index]
    ELSE caveat_eos(data, tag, macaroon,
                    [caveat EXCEPT !.verifier_id = Some(field.val)],
                    get_eos(data, field.index), checked)

\* the tag read after a caveat's identifier: a verifier id, or EOS
caveat_tag(data, tag, macaroon, caveat, tag3, checked) ==
    IF tag3.kind # "ok" THEN Fail(tag3.kind) @@ [index |-> tag.index]
    ELSE IF tag3.val = VID_V2
    THEN caveat_vid(data, tag, macaroon, caveat,
                    get_field_utf8(data, tag3.index, checked), checked)
    ELSE IF tag3.val = EOS_V2
    THEN deserialize_v2_caveats(
             data, get_tag(data, tag3.index),
             [macaroon EXCEPT !.caveats = Append(@, caveat)], checked)
    ELSE Fail("err") @@ [index |-> tag.index]

\* the location and identifier of a caveat have been read
caveat_section(data, tag, macaroon, section, checked) ==
    IF section.kind # "ok" THEN Fail(section.kind) @@ [index |-> tag.index]
    ELSE caveat_tag(data, tag, macaroon, Caveat(section.id, None, section.location),
                    get_tag(data, section.index), checked)

\* the while loop of deserialize_v2; tag is the tag read before the test
deserialize_v2_caveats(data, tag, macaroon, checked) ==
    IF tag.kind # "ok" THEN Fail(tag.kind) @@ [index |-> tag.index]
    ELSE IF tag.val = EOS_V2 THEN Done(macaroon) @@ [index |-> tag.index]
    ELSE caveat_section(data, tag, macaroon,
                        deserialize_v2_section(data, tag, checked), checked)

\* the signature field that ends the macaroon
v2_signature(macaroon, signature) ==
    IF signature.kind # "ok" THEN Fail(signature.kind)
    ELSE Done([macaroon EXCEPT !.signature = signature.val])

\* the tag read after the caveats: it must be the signature tag
v2_signature_tag(data, macaroon, tag4, checked) ==
    IF tag4.kind # "ok" THEN Fail(tag4.kind)
    ELSE IF tag4.val # SIGNATURE_V2 THEN Fail("err")
    ELSE v2_signature(macaroon, get_field(data, tag4.index, checked))

\* the caveats have been read
v2_caveats(data, caveats, checked) ==
    IF caveats.kind # "ok" THEN Fail(caveats.kind)
    ELSE v2_signature_tag(data, caveats.mac, get_tag(data, caveats.index), checked)

\* the EOS read after the macaroon's own location and identifier
v2_eos(data, section, eos, checked) ==
    IF eos.kind # "ok" THEN Fail(eos.kind)
    ELSE v2_caveats(data,
                    deserialize_v2_caveats(
                        data, get_tag(data, eos.index),
                        [DefaultMacaroon EXCEPT !.location = section.location,
                                                !.identifier = section.id],
                        checked),
                    checked)

\* the macaroon's own location and identifier have been read
v2_section(data, section, checked) ==
    IF section.kind # "ok" THEN Fail(section.kind)
    ELSE v2_eos(data, section, get_eos(data, section.index), checked)

deserialize_v2(data, checked) ==
    LET version == get_byte(data, 0)
        tag == get_tag(data, version.index)
    IN  IF version.kind # "ok" THEN Fail(version.kind)
        ELSE IF version.val # 2 THEN Fail("err")
        ELSE IF tag.kind # "ok" THEN Fail(tag.kind)
        ELSE v2_section(data, deserialize_v2_section(data, tag, checked), checked)

(***************************************************************************)
(* Serialization, version 2 JSON.  The JSON text is kept as the document   *)
(* it denotes: serde_json writes a document as text and reads the same     *)
(* document back from that text, provided every string in it is valid      *)
(* UTF-8, which a JSON text cannot do without.                             *)
(***************************************************************************)
CaveatV2J(i, i64, l, l64, v, v64) ==
    [i |-> i, i64 |-> i64, l |-> l, l64 |-> l64, v |-> v, v64 |-> v64]

V2JSerialization(v, i, i64, l, l64, c, s, s64) ==
    [v |-> v, i |-> i, i64 |-> i64, l |-> l, l64 |-> l64, c |-> c, s |-> s, s64 |-> s64]

\* impl From<&Macaroon> for V2JSerialization
V2JSerialization_from(macaroon) ==
    V2JSerialization(
        2, Some(macaroon.identifier), None, macaroon.location, None,
        [k \in 1..Len(macaroon.caveats) |->
            CaveatV2J(Some(macaroon.caveats[k].id), None,
                      macaroon.caveats[k].location, None,
                      macaroon.caveats[k].verifier_id, None)],
        None, Some(to_base64(macaroon.signature)))

serialize_v2j(macaroon) == V2JSerialization_from(macaroon)

\* a raw field, else its base64 twin, else nothing
Pick(raw, b64, utf8) ==
    IF raw.some THEN [ok |-> TRUE, val |-> raw]
    ELSE IF ~b64.some THEN [ok |-> TRUE, val |-> None]
    ELSE LET bytes == from_base64(b64.val)
         IN  [ok |-> bytes.ok /\ (utf8 => IsUtf8(bytes.val)), val |-> Some(bytes.val)]

\* the loop of try_from over ser.c, from caveat k on
RECURSIVE try_from_caveats(_, _, _)
try_from_caveats(c, k, macaroon) ==
    IF k > Len(c) THEN Done(macaroon)
    ELSE LET id == Pick(c[k].i, c[k].i64, TRUE)
             location == Pick(c[k].l, c[k].l64, TRUE)
             verifier_id == Pick(c[k].v, c[k].v64, TRUE)
         IN  IF ~id.ok \/ ~id.val.some THEN Fail("err")
             ELSE IF ~location.ok \/ ~verifier_id.ok THEN Fail("err")
             ELSE try_from_caveats(c, k + 1,
                      [macaroon EXCEPT !.caveats =
                          Append(@, Caveat(id.val.val, verifier_id.val, location.val))])

\* impl TryFrom<V2JSerialization> for Macaroon
try_from(ser) ==
    LET identifier == Pick(ser.i, ser.i64, TRUE)
        location == Pick(ser.l, ser.l64, TRUE)
        signature == Pick(ser.s, ser.s64, FALSE)
    IN  IF ser.i.some /\ ser.i64.some THEN Fail("err")
        ELSE IF ser.l.some /\ ser.l64.some THEN Fail("err")
        ELSE IF ser.s.some /\ ser.s64.some THEN Fail("err")
        ELSE IF ~identifier.ok \/ ~identifier.val.some THEN Fail("err")
        ELSE IF ~location.ok THEN Fail("err")
        ELSE IF ~signature.ok \/ ~signature.val.some THEN Fail("err")
        ELSE try_from_caveats(ser.c, 1,
                 [DefaultMacaroon EXCEPT !.identifier = identifier.val.val,
                                         !.location = location.val,
                                         !.signature = signature.val.val])

StringOk(field) == field.some => IsUtf8(field.val)

\* serde_json::from_slice: the strings of a JSON text are valid UTF-8
from_slice(doc) ==
    /\ StringOk(doc.i) /\ StringOk(doc.i64) /\ StringOk(doc.l) /\ StringOk(doc.l64)
    /\ StringOk(doc.s64)
    /\ \A k \in 1..Len(doc.c) :
           /\ StringOk(doc.c[k].i) /\ StringOk(doc.c[k].i64)
           /\ StringOk(doc.c[k].l) /\ StringOk(doc.c[k].l64)
           /\ StringOk(doc.c[k].v) /\ StringOk(doc.c[k].v64)

deserialize_v2j(doc) == IF ~from_slice(doc) THEN Fail("err") ELSE try_from(doc)

(***************************************************************************)
(* Verifier (verifier.rs).  A callback, a fn(&str) -> bool, is kept as the *)
(* set of the predicates it returns true for.                              *)
(***************************************************************************)
Zeros32 == Repeat(0, 32)

\* Verifier::new, the derived Default
Verifier_new ==
    [predicates |-> <<>>, callbacks |-> <<>>, discharge_macaroons |-> <<>>,
     signature |-> Zeros32, id_chain |-> <<>>]

\* A faulty reset: the id chain of the last walk is kept
reset_signature(self) == [self EXCEPT !.signature = Zeros32]

reset(self) == [self EXCEPT !.signature = Zeros32, !.id_chain = <<>>]

satisfy_exact(self, predicate) == [self EXCEPT !.predicates = Append(@, predicate)]

satisfy_general(self, callback) == [self EXCEPT !.callbacks = Append(@, callback)]

add_discharge_macaroons(self, discharge_macaroons) ==
    [self EXCEPT !.discharge_macaroons = @ \o discharge_macaroons]

set_signature(self, signature) == [self EXCEPT !.signature = signature]

\* generator is the closure, a function of the signature it is applied to
update_signature(self, generator) ==
    [self EXCEPT !.signature = generator[self.signature]]

verify_predicate(self, predicate) ==
    \/ Cardinality({i \in 1..Len(self.predicates) : self.predicates[i] = predicate}) > 0
    \/ Cardinality({i \in 1..Len(self.callbacks) : predicate \in self.callbacks[i]}) > 0

\* Result<bool, MacaroonError>, and the verifier as the call leaves it
Outcome(ok, val, verifier) == [ok |-> ok, val |-> val, verifier |-> verifier]

\* A faulty bind: the discharge keeps its signature
bind_keeping(self, discharge) == discharge

\* Macaroon::bind, which the sources call and do not define; from the
\* specification's section 4.3
bind(self, discharge) ==
    [discharge EXCEPT !.signature = hmac(Zeros32, self.signature \o discharge.signature)]

\* Macaroon::add_third_party_caveat as the specification's section 4.3 has
\* it: the derived discharge key sealed under the signature, nonce in front
mint_third_party_caveat(self, location, key, id, nonce) ==
    LET derived_key == generate_derived_key(key)
        vid == encrypt(self.signature, nonce, derived_key.val)
        signature == hmac2(self.signature, vid, id)
        caveat == Caveat_new(id, Some(vid), Some(location))
    IN  IF ~derived_key.ok \/ ~signature.ok \/ ~caveat.ok
        THEN [ok |-> FALSE, mac |-> self]
        ELSE [ok |-> TRUE,
              mac |-> [self EXCEPT !.caveats = Append(self.caveats, caveat.val),
                                   !.signature = signature.val]]

RECURSIVE verify_caveats(_, _, _, _)
RECURSIVE verify_as_discharge(_, _, _, _)
RECURSIVE verify_caveat(_, _, _)

\* Verifier::verify_caveat
verify_caveat(self, caveat, macaroon) ==
    LET dm == self.discharge_macaroons
        found == {i \in 1..Len(dm) : dm[i].identifier = caveat.id}
        first == CHOOSE i \in found : \A j \in found : i <= j
        pushed == [self EXCEPT !.id_chain = Append(@, dm[first].identifier)]
        key == decrypt(self.signature, caveat.verifier_id.val)
    IN  IF found = {} THEN Outcome(TRUE, FALSE, self)
        ELSE IF \E i \in 1..Len(self.id_chain) : self.id_chain[i] = dm[first].identifier
        THEN Outcome(TRUE, FALSE, self)
        ELSE IF ~key.ok THEN Outcome(FALSE, FALSE, pushed)
        ELSE verify_as_discharge(dm[first], pushed, macaroon, key.val)

\* the caveat loop of the specification's section 4.5, from caveat k of
\* walked on; root is the macaroon verify was called on
verify_caveats(walked, k, verifier, root) ==
    IF k > Len(walked.caveats) THEN Outcome(TRUE, TRUE, verifier)
    ELSE LET caveat == walked.caveats[k]
             third == verify_caveat(verifier, caveat, root)
         IN  IF ~caveat.verifier_id.some
             THEN IF verify_predicate(verifier, caveat.id)
                  THEN verify_caveats(walked, k + 1,
                           update_signature(verifier,
                               [t \in {verifier.signature} |-> hmac(t, caveat.id)]), root)
                  ELSE Outcome(TRUE, FALSE, verifier)
             ELSE IF ~third.ok \/ ~third.val THEN third
             ELSE verify_caveats(walked, k + 1,
                      update_signature(third.verifier,
                          [t \in {third.verifier.signature} |->
                              hmac(t, hmac(t, caveat.verifier_id.val) \o hmac(t, caveat.id))]),
                      root)

\* Macaroon::verify_as_discharge, which verify_caveat calls and the sources
\* do not define; from the specification's section 4.6: the same loop from
\* HMAC(key, identifier), then the bind check against the root's signature
verify_as_discharge(self, verifier, root, key) ==
    LET start == hmac_vec(key, self.identifier)
        walk == verify_caveats(self, 1, set_signature(verifier, start.val), root)
        back == set_signature(walk.verifier, verifier.signature)
    IN  IF ~start.ok THEN Outcome(FALSE, FALSE, verifier)
        ELSE IF ~walk.ok \/ ~walk.val THEN Outcome(walk.ok, walk.val, back)
        ELSE Outcome(TRUE,
                     self.signature
                         = hmac(Zeros32, root.signature \o walk.verifier.signature),
                     back)

\* Macaroon::verify(&key, &mut verifier), which the tests of verifier.rs call
\* and the sources do not define; from the specification's section 4.5
verify_with_key(self, key, verifier) ==
    LET derived_key == generate_derived_key(key)
        start == set_signature(reset(verifier), hmac(derived_key.val, self.identifier))
        walk == verify_caveats(self, 1, start, self)
    IN  IF ~derived_key.ok THEN Outcome(FALSE, FALSE, verifier)
        ELSE IF ~walk.ok \/ ~walk.val THEN walk
        ELSE Outcome(TRUE, walk.verifier.signature = self.signature, walk.verifier)

(***************************************************************************)
(* Inputs                                                                  *)
(***************************************************************************)
MaxCaveats == 2

\* builder calls that may return Err
MaxFailed == 1

\* two 32-byte secrets
Secrets == {Repeat(1, 32), Repeat(2, 32)}

\* "l"
Locations == {<<108>>}

\* "", "i", "k " (trailing space)
Identifiers == {<<>>, <<105>>, <<107, 32>>}

\* "", "p", "t9"
Predicates == {<<>>, <<112>>, <<116, 57>>}

\* "", "a"
CaveatIds == {<<>>, <<97>>}

Nonces == {Repeat(3, 24), Repeat(200, 24)}

Formats == {"V1", "V2", "V2J"}

\* predicates registered with satisfy_exact
MaxPredicates == 1

\* callbacks registered with satisfy_general
MaxCallbacks == 1

\* discharge macaroons handed to the verifier
MaxDischarges == 2

(***************************************************************************)
(* Macaroon::serialize and Macaroon::deserialize.  What goes over the wire *)
(* is a byte string; for the JSON format it is kept as the first byte of   *)
(* the text, which is all that deserialize looks at before it hands the    *)
(* text to serde_json, and the document the text denotes.                  *)
(***************************************************************************)
NoDoc == V2JSerialization(0, None, None, None, None, <<>>, None, None)

Wire(data, doc) == [data |-> data, doc |-> doc]

serialize(self, format) ==
    CASE format = "V1" -> Wire(serialize_v1(self), NoDoc)
      [] format = "V2" -> Wire(serialize_v2(self), NoDoc)
      [] format = "V2J" -> Wire(<<123>>, serialize_v2j(self))

\* A faulty IsV1Start: '_' is not taken for the start of V1 text
IsV1StartNarrow(b) ==
    \/ b >= 97 /\ b <= 122
    \/ b >= 65 /\ b <= 90
    \/ b >= 48 /\ b <= 57
    \/ b \in {43, 45, 47}

\* 'a'...'z' | 'A'...'Z' | '0'...'9' | '+' | '-' | '/' | '_'
IsV1Start(b) ==
    \/ b >= 97 /\ b <= 122
    \/ b >= 65 /\ b <= 90
    \/ b >= 48 /\ b <= 57
    \/ b \in {43, 45, 47, 95}

\* the match on data[0]: the parser the first byte selects
select(data) ==
    CASE data[1] = 123 -> "V2J"
      [] data[1] = 2 -> "V2"
      [] IsV1Start(data[1]) -> "V1"
      [] OTHER -> "unknown"

\* "unknown" is MacaroonError::UnknownSerialization
deserialize(wire, checked) ==
    IF Len(wire.data) = 0 THEN Fail("panic")
    ELSE LET macaroon ==
                 CASE select(wire.data) = "V2J" -> deserialize_v2j(wire.doc)
                   [] select(wire.data) = "V2" -> deserialize_v2(wire.data, checked)
                   [] select(wire.data) = "V1" -> deserialize_v1(wire.data)
                   [] OTHER -> Fail("unknown")
         IN  IF macaroon.kind = "ok" /\ ~validate(macaroon.mac) THEN Fail("err")
             ELSE macaroon

(***************************************************************************)
(* The builder and the wire as a state machine                             *)
(***************************************************************************)
VARIABLES
    m,       \* the macaroon under construction
    made,    \* whether create has returned it
    added,   \* the caveats asked for by the calls that returned Ok, in call order
    nfailed, \* the number of builder calls that have returned Err
    ckey,    \* the secret create was called with
    last,    \* the last builder call: its name, the signature before it, its key
    sent,    \* the last serialization: its format, its input and its output
    got,     \* what deserialize made of it
    verifier, \* the Verifier
    result,  \* the last verification: the call, its key, what it returned
    before,  \* the Verifier as the last verification found it
    parse,   \* the last parser call on bytes from outside: input and outcome
    discharge \* a discharge macaroon in its holder's hands, and its last bind

vars == <<m, made, added, nfailed, ckey, last, sent, got, verifier, result,
          before, parse, discharge>>

NoResult == [call |-> "none", key |-> <<>>, ok |-> TRUE, val |-> FALSE]

NoCall == [op |-> "none", pre |-> <<>>, key |-> <<>>, id |-> <<>>, ok |-> TRUE]

NotSent == [format |-> "none", of |-> DefaultMacaroon, wire |-> Wire(<<>>, NoDoc)]

NotGot == Fail("none")

\* read is what a step of V2Deserializer called on its own returned
NoRead == Read("none", 0, 0)

NoParse ==
    [parser |-> "none", how |-> [kind |-> "none", at |-> 0, to |-> 0, field |-> ""],
     checked |-> TRUE, wire |-> Wire(<<>>, NoDoc), route |-> "none", out |-> NotGot,
     read |-> NoRead]

\* pre is the discharge and root the root macaroon as the last bind found them
NoDischarge ==
    [made |-> FALSE, mac |-> DefaultMacaroon, binds |-> 0,
     pre |-> DefaultMacaroon, root |-> DefaultMacaroon]

Init ==
    /\ m = DefaultMacaroon
    /\ made = FALSE
    /\ added = <<>>
    /\ nfailed = 0
    /\ ckey = <<>>
    /\ last = NoCall
    /\ sent = NotSent
    /\ got = NotGot
    /\ verifier = Verifier_new
    /\ result = NoResult
    /\ before = Verifier_new
    /\ parse = NoParse
    /\ discharge = NoDischarge

Create(location, key, identifier) ==
    /\ ~made
    /\ \E r \in {create(location, key, identifier)} :
           /\ r.ok \/ nfailed < MaxFailed
           /\ nfailed' = IF r.ok THEN nfailed ELSE nfailed + 1
           /\ made' = r.ok
           /\ m' = IF r.ok THEN r.mac ELSE m
           /\ ckey' = IF r.ok THEN key ELSE ckey
           /\ last' = [op |-> "create", pre |-> <<>>, key |-> key,
                       id |-> identifier, ok |-> r.ok]
    /\ UNCHANGED <<added, sent, got, verifier, result, parse, before, discharge>>

AddFirstParty(predicate) ==
    /\ made
    /\ Len(m.caveats) < MaxCaveats
    /\ \E r \in {add_first_party_caveat(m, predicate)} :
           /\ m' = r.mac
           /\ added' = IF r.ok
                       THEN Append(added, [id |-> predicate, location |-> None,
                                           third |-> FALSE])
                       ELSE added
           /\ r.ok \/ nfailed < MaxFailed
           /\ nfailed' = IF r.ok THEN nfailed ELSE nfailed + 1
           /\ last' = [op |-> "first", pre |-> m.signature, key |-> <<>>,
                       id |-> predicate, ok |-> r.ok]
    /\ UNCHANGED <<made, ckey, sent, got, verifier, result, parse, before, discharge>>

AddThirdParty(location, key, id, nonce) ==
    /\ made
    /\ Len(m.caveats) < MaxCaveats
    /\ \E r \in {add_third_party_caveat(m, location, key, id, nonce)} :
           /\ m' = r.mac
           /\ added' = IF r.ok
                       THEN Append(added, [id |-> id, location |-> Some(location),
                                           third |-> TRUE])
                       ELSE added
           /\ r.ok \/ nfailed < MaxFailed
           /\ nfailed' = IF r.ok THEN nfailed ELSE nfailed + 1
           /\ last' = [op |-> "third", pre |-> m.signature, key |-> key,
                       id |-> id, ok |-> r.ok]
    /\ UNCHANGED <<made, ckey, sent, got, verifier, result, parse, before, discharge>>

Serialize(format) ==
    /\ made
    /\ sent' = [format |-> format, of |-> m, wire |-> serialize(m, format)]
    /\ got' = NotGot
    /\ UNCHANGED <<m, made, added, nfailed, ckey, last, verifier, result, parse, before, discharge>>

Deserialize(checked) ==
    /\ sent.format # "none"
    /\ got = NotGot
    /\ got' = deserialize(sent.wire, checked)
    /\ UNCHANGED <<m, made, added, nfailed, ckey, last, sent, verifier, result, parse, before, discharge>>

\* the builder alone
Next ==
    \/ \E l \in Locations, k \in Secrets, i \in Identifiers : Create(l, k, i)
    \/ \E p \in Predicates : AddFirstParty(p)
    \/ \E l \in Locations, k \in Secrets, i \in CaveatIds, n \in Nonces :
          AddThirdParty(l, k, i, n)

Spec == Init /\ [][Next]_vars

\* the builder, and what it builds sent over the wire and read back
WireNext ==
    \/ \E l \in Locations, k \in Secrets, i \in Identifiers : Create(l, k, i)
    \/ \E p \in Predicates : AddFirstParty(p)
    \/ \E l \in Locations, k \in Secrets, i \in CaveatIds, n \in Nonces :
          AddThirdParty(l, k, i, n)
    \/ \E f \in Formats : Serialize(f)
    \/ \E c \in BOOLEAN : Deserialize(c)

SpecWire == Init /\ [][WireNext]_vars

(***************************************************************************)
(* Verification as a state machine: a root macaroon is built, discharge    *)
(* macaroons and predicates are handed to the verifier, and the macaroon   *)
(* is verified                                                             *)
(***************************************************************************)
RootSecret == Repeat(1, 32)

DischargeSecret == Repeat(2, 32)

RootIdentifier == <<105>>

DischargeIds == {<<97>>, <<98>>}

OtherId(id) == IF id = <<97>> THEN <<98>> ELSE <<97>>

VerifyPredicates == {<<112>>, <<116, 57>>}

ExactPredicates == {<<112>>}

Callbacks == {{<<116, 57>>}}

\* a discharge macaroon as its presenter prepares it: minted by create for
\* the caveat id, given a caveat or none, bound to the root or not
Discharge(root, key, id, body, bound) ==
    LET location == <<108>>
        nonce == Repeat(3, 24)
        minted == create(location, key, id).mac
        whole ==
            CASE body = "none" -> minted
              [] body = "first" -> add_first_party_caveat(minted, <<116, 57>>).mac
              [] body = "self" ->
                    mint_third_party_caveat(minted, location, key, id, nonce).mac
              [] body = "self_src" ->
                    add_third_party_caveat(minted, location, key, id, nonce).mac
              [] body = "next" ->
                    mint_third_party_caveat(minted, location, key, OtherId(id), nonce).mac
    IN  CASE bound = "none" -> whole
          [] bound = "root" -> bind(root, whole)
          [] bound = "other" -> bind(create(location, DischargeSecret, <<111>>).mac, whole)

DischargeCases ==
    { <<DischargeSecret, <<97>>, "none", "root">>,
      <<DischargeSecret, <<97>>, "first", "root">>,
      <<DischargeSecret, <<97>>, "none", "none">>,
      <<DischargeSecret, <<97>>, "none", "other">>,
      <<RootSecret, <<97>>, "none", "root">>,
      <<DischargeSecret, <<97>>, "self", "root">>,
      <<DischargeSecret, <<97>>, "self_src", "root">>,
      <<DischargeSecret, <<97>>, "next", "root">>,
      <<DischargeSecret, <<98>>, "next", "root">> }

MintThirdParty(location, key, id, nonce) ==
    /\ made
    /\ Len(m.caveats) < MaxCaveats
    /\ \E r \in {mint_third_party_caveat(m, location, key, id, nonce)} :
           /\ r.ok
           /\ m' = r.mac
           /\ added' = Append(added, [id |-> id, location |-> Some(location),
                                      third |-> TRUE])
           /\ last' = [op |-> "minted", pre |-> m.signature, key |-> key,
                       id |-> id, ok |-> r.ok]
    /\ UNCHANGED <<made, nfailed, ckey, sent, got, verifier, result, parse, before, discharge>>

SatisfyExact(predicate) ==
    /\ Len(verifier.predicates) < MaxPredicates
    /\ verifier' = satisfy_exact(verifier, predicate)
    /\ UNCHANGED <<m, made, added, nfailed, ckey, last, sent, got, result, parse, before, discharge>>

SatisfyGeneral(callback) ==
    /\ Len(verifier.callbacks) < MaxCallbacks
    /\ verifier' = satisfy_general(verifier, callback)
    /\ UNCHANGED <<m, made, added, nfailed, ckey, last, sent, got, result, parse, before, discharge>>

AddDischargeMacaroons(key, id, body, bound) ==
    /\ made
    /\ Len(verifier.discharge_macaroons) < MaxDischarges
    /\ verifier' = add_discharge_macaroons(verifier, <<Discharge(m, key, id, body, bound)>>)
    /\ UNCHANGED <<m, made, added, nfailed, ckey, last, sent, got, result, parse, before, discharge>>

\* Macaroon::verify as the sources define it
Verify(key) ==
    /\ made
    /\ \E r \in {verify(m, verifier)} :
           result' = [call |-> "verify", key |-> key, ok |-> r.ok, val |-> r.val]
    /\ before' = verifier
    /\ UNCHANGED <<m, made, added, nfailed, ckey, last, sent, got, verifier, parse, discharge>>

\* Macaroon::verify as verifier.rs calls it
VerifyWithKey(key) ==
    /\ made
    /\ \E r \in {verify_with_key(m, key, verifier)} :
           /\ result' = [call |-> "verify_with_key", key |-> key, ok |-> r.ok,
                         val |-> r.val]
           /\ verifier' = r.verifier
    /\ before' = verifier
    /\ UNCHANGED <<m, made, added, nfailed, ckey, last, sent, got, parse, discharge>>

\* the macaroon is built before anything is handed to the verifier, and the
\* verifier is set up before the first verification
Building == verifier = Verifier_new /\ result = NoResult

SettingUp == made /\ result = NoResult

VerifyNext ==
    \/ Building /\ Create(<<108>>, RootSecret, RootIdentifier)
    \/ Building /\ \E p \in VerifyPredicates : AddFirstParty(p)
    \/ Building /\ AddThirdParty(<<108>>, DischargeSecret, <<97>>, Repeat(3, 24))
    \/ Building /\ MintThirdParty(<<108>>, DischargeSecret, <<97>>, Repeat(3, 24))
    \/ SettingUp /\ \E p \in ExactPredicates : SatisfyExact(p)
    \/ SettingUp /\ \E c \in Callbacks : SatisfyGeneral(c)
    \/ SettingUp /\ \E d \in DischargeCases : AddDischargeMacaroons(d[1], d[2], d[3], d[4])
    \/ \E k \in Secrets : Verify(k)
    \/ \E k \in Secrets : VerifyWithKey(k)

SpecVerify == Init /\ [][VerifyNext]_vars

(***************************************************************************)
(* The signature chain                                                     *)
(***************************************************************************)
\* the caveat-accumulation rule: HMAC(sig, id) for a first-party caveat,
\* HMAC(sig, HMAC(sig, vid) || HMAC(sig, id)) for a third-party one
ChainStep(sig, caveat) ==
    IF caveat.verifier_id.some
    THEN hmac(sig, hmac(sig, caveat.verifier_id.val) \o hmac(sig, caveat.id))
    ELSE hmac(sig, caveat.id)

RECURSIVE Chain(_, _, _)
Chain(sig, caveats, k) ==
    IF k > Len(caveats) THEN sig
    ELSE Chain(ChainStep(sig, caveats[k]), caveats, k + 1)

ChainStart(secret, identifier) == hmac(hmac(KEY_GENERATOR, secret), identifier)

\* C1: after create and any run of successful add_first_party_caveat and
\* add_third_party_caveat calls the caveat list holds exactly the caveats
\* asked for, in call order, and the signature is the chain folded over that
\* list from HMAC(HMAC(KEY_GENERATOR, secret), identifier); without caveats
\* the macaroon is the one any create call with the same inputs returns.
ChainFolded ==
    (made /\ nfailed = 0) =>
        /\ Len(m.caveats) = Len(added)
        /\ \A k \in 1..Len(added) :
               /\ m.caveats[k].id = added[k].id
               /\ m.caveats[k].location = added[k].location
               /\ m.caveats[k].verifier_id.some = added[k].third
        /\ m.signature = Chain(ChainStart(ckey, m.identifier), m.caveats, 1)
        /\ added = <<>> =>
               /\ m.signature = ChainStart(ckey, m.identifier)
               /\ create(m.location.val, ckey, m.identifier) = [ok |-> TRUE, mac |-> m]

\* C1: a third-party caveat and then a first-party caveat have been added.
ChainFoldedWitness ==
    /\ made /\ nfailed = 0
    /\ Len(m.caveats) = 2
    /\ m.caveats[1].verifier_id.some
    /\ ~m.caveats[2].verifier_id.some

\* C7: the verifier id add_third_party_caveat stores opens under the
\* signature the macaroon had before the call, and what it opens to is the
\* derived discharge key HMAC(KEY_GENERATOR, discharge_secret).
VidSealsDischargeKey ==
    (last.op = "third" /\ last.ok) =>
        decrypt(last.pre, m.caveats[Len(m.caveats)].verifier_id.val)
            = [ok |-> TRUE, val |-> hmac(KEY_GENERATOR, last.key)]

\* C8: deserialize gives back every macaroon that create and successful
\* caveat calls built and serialize wrote as V1: location, identifier,
\* signature and the whole caveat list in order.
RoundTripV1 ==
    (nfailed = 0 /\ sent.format = "V1" /\ got # NotGot) => got = Done(sent.of)

\* C9: deserialize gives back every macaroon that create and successful
\* caveat calls built and serialize wrote as V2, whatever bytes its verifier
\* ids are.
RoundTripV2 ==
    (nfailed = 0 /\ sent.format = "V2" /\ got # NotGot) => got = Done(sent.of)

\* at most one of a raw field and its base64 twin is present
OneForm(raw, b64) == ~(raw.some /\ b64.some)

\* C10: the V2J serializer writes at most one form of each field pair, and
\* deserialize gives back every macaroon that create and successful caveat
\* calls built and serialize wrote as V2J.
RoundTripV2J ==
    (nfailed = 0 /\ sent.format = "V2J") =>
        /\ OneForm(sent.wire.doc.i, sent.wire.doc.i64)
        /\ OneForm(sent.wire.doc.l, sent.wire.doc.l64)
        /\ OneForm(sent.wire.doc.s, sent.wire.doc.s64)
        /\ \A k \in 1..Len(sent.wire.doc.c) :
               /\ OneForm(sent.wire.doc.c[k].i, sent.wire.doc.c[k].i64)
               /\ OneForm(sent.wire.doc.c[k].l, sent.wire.doc.c[k].l64)
               /\ OneForm(sent.wire.doc.c[k].v, sent.wire.doc.c[k].v64)
        /\ got # NotGot => got = Done(sent.of)

(***************************************************************************)
(* Binding: the holder of a discharge macaroon mints it, may add a caveat  *)
(* of its own, and binds it to the root macaroon, once or again            *)
(***************************************************************************)
MaxBinds == 2

CreateDischarge(location, key, id) ==
    /\ made
    /\ ~discharge.made
    /\ \E r \in {create(location, key, id)} :
           /\ r.ok
           /\ discharge' = [NoDischarge EXCEPT !.made = TRUE, !.mac = r.mac]
    /\ UNCHANGED <<m, made, added, nfailed, ckey, last, sent, got, verifier, result,
                   before, parse>>

AddToDischarge(predicate) ==
    /\ discharge.made
    /\ discharge.binds = 0
    /\ Len(discharge.mac.caveats) < MaxCaveats
    /\ \E r \in {add_first_party_caveat(discharge.mac, predicate)} :
           /\ r.ok
           /\ discharge' = [discharge EXCEPT !.mac = r.mac]
    /\ UNCHANGED <<m, made, added, nfailed, ckey, last, sent, got, verifier, result,
                   before, parse>>

\* root.bind(&mut discharge)
Bind ==
    /\ made
    /\ discharge.made
    /\ discharge.binds < MaxBinds
    /\ discharge' = [discharge EXCEPT !.mac = bind(m, discharge.mac),
                                      !.binds = @ + 1,
                                      !.pre = discharge.mac,
                                      !.root = m]
    /\ UNCHANGED <<m, made, added, nfailed, ckey, last, sent, got, verifier, result,
                   before, parse>>

\* the root is complete before a discharge is bound to it
Unbound == discharge.binds = 0

BindNext ==
    \/ Unbound /\ Create(<<108>>, RootSecret, RootIdentifier)
    \/ Unbound /\ \E p \in VerifyPredicates : AddFirstParty(p)
    \/ Unbound /\ AddThirdParty(<<108>>, DischargeSecret, <<97>>, Repeat(3, 24))
    \/ \E k \in Secrets : CreateDischarge(<<108>>, k, <<97>>)
    \/ \E p \in VerifyPredicates : AddToDischarge(p)
    \/ Bind

SpecBind == Init /\ [][BindNext]_vars

(***************************************************************************)
(* Bytes from outside.  A parser is handed what a serializer wrote, or     *)
(* that with one deviation: a byte replaced, the end cut off, a field      *)
(* retagged, moved or left out, a JSON member added or removed, or the     *)
(* serialization of a macaroon no builder call returns.                    *)
(***************************************************************************)
\* 130 times "i": a field whose length takes two varint bytes
LongIdentifier == Repeat(105, 130)

\* what was done to the serializer's output, where, and with what
How(kind, at, to, field) == [kind |-> kind, at |-> at, to |-> to, field |-> field]

Untouched == How("none", 0, 0, "")

Input(how, wire) == [how |-> how, wire |-> wire]

\* the V2 layout piece by piece: the version byte, fields, end-of-section
\* markers
Field(tag, value) == [kind |-> "field", tag |-> tag, value |-> value]

Eos == [kind |-> "eos", tag |-> 0, value |-> <<>>]

Version(b) == [kind |-> "version", tag |-> b, value |-> <<>>]

OptionalField(tag, field) == IF field.some THEN <<Field(tag, field.val)>> ELSE <<>>

CaveatPieces(caveat) ==
    OptionalField(1, caveat.location) \o <<Field(2, caveat.id)>>
        \o OptionalField(4, caveat.verifier_id) \o <<Eos>>

RECURSIVE CaveatsPieces(_, _)
CaveatsPieces(caveats, k) ==
    IF k > Len(caveats) THEN <<>>
    ELSE CaveatPieces(caveats[k]) \o CaveatsPieces(caveats, k + 1)

Pieces(macaroon) ==
    <<Version(2)>> \o OptionalField(1, macaroon.location)
        \o <<Field(2, macaroon.identifier), Eos>>
        \o CaveatsPieces(macaroon.caveats, 1)
        \o <<Eos, Field(6, macaroon.signature)>>

\* an unsigned LEB128 number below 2^14
Leb128(n) == IF n < 128 THEN <<n>> ELSE <<128 + (n % 128), n \div 128>>

\* an "overlong" piece is a field that declares one byte more than it has
PieceBytes(piece) ==
    CASE piece.kind = "field" -> <<piece.tag>> \o Leb128(Len(piece.value)) \o piece.value
      [] piece.kind = "overlong" ->
            <<piece.tag>> \o Leb128(Len(piece.value) + 1) \o piece.value
      [] OTHER -> <<piece.tag>>

RECURSIVE Flatten(_, _)
Flatten(pieces, k) ==
    IF k > Len(pieces) THEN <<>> ELSE PieceBytes(pieces[k]) \o Flatten(pieces, k + 1)

Bytes(data) == Wire(data, NoDoc)

ReservedTags == {3, 5}

WrongVersions == {0, 1, 3, 97}

\* V2 data with one deviation from the layout
ForgedV2(macaroon) ==
    LET pieces == Pieces(macaroon)
        n == Len(pieces)
        fields == {k \in 1..n : pieces[k].kind = "field"}
        data == Flatten(pieces, 1)
    IN  {Input(How("version", 1, b, ""), Bytes(Flatten([pieces EXCEPT ![1].tag = b], 1))) :
            b \in WrongVersions}
        \cup {Input(How("retag", k[1], k[2], ""),
                    Bytes(Flatten([pieces EXCEPT ![k[1]].tag = k[2]], 1))) :
                k \in fields \X ReservedTags}
        \cup {Input(How("swap", k, 0, ""),
                    Bytes(Flatten([pieces EXCEPT ![k] = pieces[k + 1],
                                                 ![k + 1] = pieces[k]], 1))) :
                k \in {j \in fields : j + 1 \in fields}}
        \cup {Input(How("drop", k, 0, ""),
                    Bytes(Flatten(SubSeq(pieces, 1, k - 1) \o SubSeq(pieces, k + 1, n), 1))) :
                k \in {j \in 1..n : pieces[j].kind = "eos" \/ pieces[j].tag = 2}}
        \cup {Input(How("overlong", n, 0, ""),
                    Bytes(Flatten([pieces EXCEPT ![n].kind = "overlong"], 1)))}
        \cup {Input(How("truncate", k, 0, ""), Bytes(Take(data, k))) :
                k \in 0..(Len(data) - 1)}

\* a V2J document with both forms of a field, without a field that must be
\* there, or with another version number; at is the caveat, 0 the macaroon
WrongNumbers == {0, 1, 3}

Json(doc) == Wire(<<123>>, doc)

ForgedV2J(macaroon) ==
    LET doc == serialize_v2j(macaroon)
        caveats == 1..Len(doc.c)
    IN  {Input(How("version", 0, b, "v"), Json([doc EXCEPT !.v = b])) : b \in WrongNumbers}
        \cup {Input(How("both", 0, 0, "i"),
                    Json([doc EXCEPT !.i64 = Some(to_base64(macaroon.identifier))])),
              Input(How("both", 0, 0, "l"),
                    Json([doc EXCEPT !.l = Some(<<108>>),
                                     !.l64 = Some(to_base64(<<108>>))])),
              Input(How("both", 0, 0, "s"),
                    Json([doc EXCEPT !.s = Some(macaroon.signature)])),
              Input(How("without", 0, 0, "i"), Json([doc EXCEPT !.i = None])),
              Input(How("without", 0, 0, "s"), Json([doc EXCEPT !.s64 = None]))}
        \cup {Input(How("both", k, 0, "i"),
                    Json([doc EXCEPT !.c[k].i64 = Some(to_base64(macaroon.caveats[k].id))])) :
                k \in caveats}
        \cup {Input(How("both", k, 0, "l"),
                    Json([doc EXCEPT !.c[k].l = Some(<<108>>),
                                     !.c[k].l64 = Some(to_base64(<<108>>))])) :
                k \in caveats}
        \cup {Input(How("both", k, 0, "v"),
                    Json([doc EXCEPT !.c[k].v = Some(<<118>>),
                                     !.c[k].v64 = Some(to_base64(<<118>>))])) :
                k \in caveats}

\* the serialization of a macaroon that breaks the structure: no identifier,
\* a caveat without id, a signature that is not 32 bytes long
Broken(macaroon, format) ==
    {Input(How("break", 0, 0, "identifier"),
           serialize([macaroon EXCEPT !.identifier = <<>>], format)),
     Input(How("break", 0, 31, "signature"),
           serialize([macaroon EXCEPT !.signature = Take(@, 31)], format)),
     Input(How("break", 0, 33, "signature"),
           serialize([macaroon EXCEPT !.signature = @ \o <<0>>], format))}
        \cup {Input(How("break", k, 0, "id"),
                    serialize([macaroon EXCEPT !.caveats[k].id = <<>>], format)) :
                k \in 1..Len(macaroon.caveats)}

\* the V1 data before base64, chunk by chunk: the location packet if there
\* is one, the identifier packet, the packets of each caveat, the signature
\* packet
RECURSIVE CaveatChunks(_, _)
CaveatChunks(caveats, k) ==
    IF k > Len(caveats) THEN <<>>
    ELSE <<serialize_caveat_v1(caveats[k])>> \o CaveatChunks(caveats, k + 1)

Chunks(macaroon) ==
    (IF macaroon.location.some
     THEN <<serialize_as_packet(LOCATION_V1, macaroon.location.val)>> ELSE <<>>)
        \o <<serialize_as_packet(IDENTIFIER_V1, macaroon.identifier)>>
        \o CaveatChunks(macaroon.caveats, 1)
        \o <<serialize_as_packet(SIGNATURE_V1, macaroon.signature)>>

RECURSIVE Join(_, _)
Join(chunks, k) == IF k > Len(chunks) THEN <<>> ELSE chunks[k] \o Join(chunks, k + 1)

Text(data) == Bytes(to_base64(data))

\* hex lengths below the four bytes of the header, and one past any data
WrongLengths == {0, 3, 65535}

\* signature values that, with the newline behind them, stay below 32 bytes
ShortSignatures == {0, 16, 30}

\* a packet with a key and no space
NoSpacePacket == packet_header(HEADER_SIZE_V1 + Len(IDENTIFIER_V1)) \o IDENTIFIER_V1

\* V1 text with one deviation: nothing at all; one to three bytes where a
\* packet header is expected; a header with a wrong length; a packet
\* without a space; a signature packet with a short value
ForgedV1(macaroon) ==
    LET chunks == Chunks(macaroon)
        n == Len(chunks)
    IN  {Input(How("empty", 0, 0, ""), Bytes(<<>>))}
        \cup {Input(How("short", k[1], k[2], ""),
                    Text(Join(Take(chunks, k[1] - 1), 1) \o Take(chunks[k[1]], k[2]))) :
                k \in (1..n) \X (1..3)}
        \cup {Input(How("length", k[1], k[2], ""),
                    Text(Join([chunks EXCEPT ![k[1]] = packet_header(k[2]) \o Drop(@, 4)], 1))) :
                k \in (1..n) \X WrongLengths}
        \cup {Input(How("nospace", k, 0, ""),
                    Text(Join([chunks EXCEPT ![k] = NoSpacePacket], 1))) :
                k \in 1..n}
        \cup {Input(How("signature", n, k, ""),
                    Text(Join([chunks EXCEPT
                                  ![n] = serialize_as_packet(SIGNATURE_V1,
                                                             Take(macaroon.signature, k))], 1))) :
                k \in ShortSignatures}

\* '{' stays with the JSON text
FirstBytes == {2, 97, 122, 65, 90, 48, 57, 43, 45, 47, 95, 0, 3, 32, 61, 64, 91, 96, 255}

Rerouted(wire) ==
    {Input(How("first", 1, b, ""), Bytes([wire.data EXCEPT ![1] = b])) : b \in FirstBytes}

\* what Macaroon::deserialize is handed
Outside(serialized) ==
    {Input(Untouched, serialized.wire)}
        \cup Broken(serialized.of, serialized.format)
        \cup (IF serialized.format = "V2J" THEN ForgedV2J(serialized.of)
              ELSE Rerouted(serialized.wire))

\* the macaroon is built, serialized once, and a parser is called once
Unsent == sent = NotSent /\ parse = NoParse

Parsed(parser, input, checked, route, out) ==
    [parser |-> parser, how |-> input.how, checked |-> checked, wire |-> input.wire,
     route |-> route, out |-> out, read |-> NoRead]

\* field lengths whose varint takes one, two, three and four bytes
FieldSizes == {0, 1, 127, 128, 130, 255, 256, 300, 16383, 16384, 2097151, 2097152}

\* ten continuation bytes, and eleven: more than the 64 bits of a usize hold
ContinuationRuns == {Repeat(255, 10) \o <<1>>, Repeat(128, 11)}

\* what get_field_size is handed: the varint of a field length with the
\* first byte of the field behind it, or a run of continuation bytes
Varints ==
    {Input(How("size", n, 0, ""), Bytes(varint_size(n) \o <<105>>)) : n \in FieldSizes}
        \cup {Input(How("continuation", Len(run), 0, ""), Bytes(run)) :
                 run \in ContinuationRuns}

\* V2Deserializer::new(data).get_field_size()
GetFieldSize(checked) ==
    /\ Unsent
    /\ \E input \in Varints :
           parse' = [Parsed("get_field_size", input, checked, "V2", NotGot)
                        EXCEPT !.read = get_field_size(input.wire.data, 0, checked)]
    /\ UNCHANGED <<m, made, added, nfailed, ckey, last, sent, got, verifier, result,
                   before, discharge>>

\* Macaroon::deserialize on bytes from outside
DeserializeOutside(checked) ==
    /\ sent.format # "none"
    /\ parse = NoParse
    /\ \E input \in Outside(sent) :
           parse' = Parsed("deserialize", input, checked, select(input.wire.data),
                           deserialize(input.wire, checked))
    /\ UNCHANGED <<m, made, added, nfailed, ckey, last, sent, got, verifier, result,
                   before, discharge>>

\* serialization::v2::deserialize_v2 on bytes from outside
DeserializeV2(checked) ==
    /\ sent.format = "V2"
    /\ parse = NoParse
    /\ \E input \in {Input(Untouched, sent.wire)} \cup ForgedV2(sent.of) :
           parse' = Parsed("deserialize_v2", input, checked, "V2",
                           deserialize_v2(input.wire.data, checked))
    /\ UNCHANGED <<m, made, added, nfailed, ckey, last, sent, got, verifier, result,
                   before, discharge>>

\* the parser Macaroon::deserialize hands the text to, if it gets that far
Route(wire) == IF wire.data = <<>> THEN "none" ELSE select(wire.data)

\* Macaroon::deserialize on V1 text from outside; nothing on this path
\* depends on overflow checks
DeserializeText ==
    /\ sent.format = "V1"
    /\ parse = NoParse
    /\ \E input \in {Input(Untouched, sent.wire)} \cup ForgedV1(sent.of) :
           parse' = Parsed("deserialize", input, TRUE, Route(input.wire),
                           deserialize(input.wire, TRUE))
    /\ UNCHANGED <<m, made, added, nfailed, ckey, last, sent, got, verifier, result,
                   before, discharge>>

\* serialization::v1::deserialize_v1 on V1 text from outside
DeserializeV1 ==
    /\ sent.format = "V1"
    /\ parse = NoParse
    /\ \E input \in {Input(Untouched, sent.wire)} \cup ForgedV1(sent.of) :
           parse' = Parsed("deserialize_v1", input, TRUE, "V1",
                           deserialize_v1(input.wire.data))
    /\ UNCHANGED <<m, made, added, nfailed, ckey, last, sent, got, verifier, result,
                   before, discharge>>

\* serialization::v2j::deserialize_v2j on a document from outside
DeserializeV2J ==
    /\ sent.format = "V2J"
    /\ parse = NoParse
    /\ \E input \in {Input(Untouched, sent.wire)} \cup ForgedV2J(sent.of) :
           parse' = Parsed("deserialize_v2j", input, TRUE, "V2J",
                           deserialize_v2j(input.wire.doc))
    /\ UNCHANGED <<m, made, added, nfailed, ckey, last, sent, got, verifier, result,
                   before, discharge>>

ParseIdentifiers == {<<>>, <<105>>, LongIdentifier}

ParsePredicates == {<<>>, <<112>>}

ParseNext ==
    \/ Unsent /\ \E i \in ParseIdentifiers : Create(<<108>>, RootSecret, i)
    \/ Unsent /\ \E p \in ParsePredicates : AddFirstParty(p)
    \/ Unsent /\ AddThirdParty(<<108>>, DischargeSecret, <<97>>, Repeat(3, 24))
    \/ Unsent /\ \E f \in Formats : Serialize(f)
    \/ \E c \in BOOLEAN : DeserializeOutside(c)
    \/ \E c \in BOOLEAN : DeserializeV2(c)
    \/ DeserializeV2J
    \/ \E c \in BOOLEAN : GetFieldSize(c)

SpecParse == Init /\ [][ParseNext]_vars

\* a macaroon is built and written as V1, and the text or a deviation of it
\* is handed to Macaroon::deserialize or to deserialize_v1
TextNext ==
    \/ Unsent /\ \E i \in ParseIdentifiers : Create(<<108>>, RootSecret, i)
    \/ Unsent /\ \E p \in ParsePredicates : AddFirstParty(p)
    \/ Unsent /\ AddThirdParty(<<108>>, DischargeSecret, <<97>>, Repeat(3, 24))
    \/ Unsent /\ Serialize("V1")
    \/ DeserializeText
    \/ DeserializeV1

SpecText == Init /\ [][TextNext]_vars

(***************************************************************************)
(* Verification                                                            *)
(***************************************************************************)
Verified == result.call # "none"

ReturnsTrue == result.ok /\ result.val

ReturnsFalse == result.ok /\ ~result.val

IsThirdParty(caveat) == caveat.verifier_id.some

\* some exact predicate equals the id, or some callback accepts it
Satisfied(id) ==
    \/ \E i \in 1..Len(verifier.predicates) : verifier.predicates[i] = id
    \/ \E i \in 1..Len(verifier.callbacks) : id \in verifier.callbacks[i]

\* the rolling signature of a verification with the minting secret after
\* the first n caveats
Rolling(n) == Chain(ChainStart(ckey, m.identifier), SubSeq(m.caveats, 1, n), 1)

\* the discharge macaroons with this identifier
Matching(id) ==
    {i \in 1..Len(verifier.discharge_macaroons) :
        verifier.discharge_macaroons[i].identifier = id}

\* C2: verify walks the chain from HMAC(HMAC(KEY_GENERATOR, secret),
\* identifier) over every caveat and returns true only if what it arrives at
\* is the macaroon's signature; a macaroon without caveats verifies true with
\* the secret it was minted with and false with a secret of another chain.
VerifyWalksChain ==
    result.call = "verify" =>
        /\ ReturnsTrue =>
               m.signature = Chain(ChainStart(result.key, m.identifier), m.caveats, 1)
        /\ (m.caveats = <<>> /\ result.key = ckey) => ReturnsTrue
        /\ (m.caveats = <<>> /\ ChainStart(result.key, m.identifier) # m.signature)
               => ReturnsFalse

\* C3: verify_predicate holds of a caveat id exactly when an exact predicate
\* equals it or a callback accepts it; verify returns false when a first-party
\* caveat of the macaroon is satisfied by neither, and true for a correctly
\* signed macaroon of first-party caveats that are all satisfied.
FirstPartyDecides ==
    /\ \A id \in VerifyPredicates : verify_predicate(verifier, id) <=> Satisfied(id)
    /\ result.call = "verify" =>
           /\ (\E k \in 1..Len(m.caveats) :
                   ~IsThirdParty(m.caveats[k]) /\ ~Satisfied(m.caveats[k].id))
                  => ReturnsFalse
           /\ (/\ result.key = ckey
               /\ \A k \in 1..Len(m.caveats) :
                      ~IsThirdParty(m.caveats[k]) /\ Satisfied(m.caveats[k].id))
                  => ReturnsTrue

\* the root has one third-party caveat, every first-party caveat of it is
\* satisfied, it is verified with its minting secret, and the verifier holds
\* one discharge macaroon: this one
OneDischarge(body, bound) ==
    /\ Verified /\ result.key = ckey
    /\ Cardinality({k \in 1..Len(m.caveats) : IsThirdParty(m.caveats[k])}) = 1
    /\ \A k \in 1..Len(m.caveats) :
           IF IsThirdParty(m.caveats[k]) THEN m.caveats[k].id = <<97>>
           ELSE Satisfied(m.caveats[k].id)
    /\ verifier.discharge_macaroons
           = <<Discharge(m, DischargeSecret, <<97>>, body, bound)>>

\* C4: a discharge minted with the caveat's discharge secret and id, its own
\* caveats satisfied, bound to the root, makes verify return true wherever
\* the third-party caveat sits in the root; left unbound, or bound to another
\* root's signature, it makes verify return false.
BoundDischargeAccepted ==
    /\ OneDischarge("none", "root") => ReturnsTrue
    /\ (OneDischarge("first", "root") /\ Satisfied(<<116, 57>>)) => ReturnsTrue
    /\ OneDischarge("none", "none") => ReturnsFalse
    /\ OneDischarge("none", "other") => ReturnsFalse

\* the discharge macaroons refer to each other's identifiers in a cycle that
\* the root's third-party caveat leads into
Cyclic ==
    LET dm == verifier.discharge_macaroons
        Refers(i, j) ==
            \E k \in 1..Len(dm[i].caveats) :
                IsThirdParty(dm[i].caveats[k]) /\ dm[i].caveats[k].id = dm[j].identifier
    IN  /\ \E k \in 1..Len(m.caveats) : IsThirdParty(m.caveats[k])
        /\ dm # <<>>
        /\ dm[1].identifier = <<97>>
        /\ \/ Refers(1, 1)
           \/ Len(dm) = 2 /\ dm[2].identifier = <<98>> /\ Refers(1, 2) /\ Refers(2, 1)

\* C5: verify returns false on discharge macaroons that refer to each other
\* in a cycle; verify_caveat returns Ok(false) when the matching discharge's
\* identifier is already in id_chain, and otherwise has pushed it when it
\* goes on to the discharge.
CycleReturnsFalse ==
    /\ (Verified /\ Cyclic) => ReturnsFalse
    /\ \A k \in 1..Len(m.caveats) :
           (IsThirdParty(m.caveats[k]) /\ Matching(m.caveats[k].id) # {}) =>
               LET id == m.caveats[k].id
                   seen == [verifier EXCEPT !.signature = Rolling(k - 1),
                                            !.id_chain = <<id>>]
                   fresh == [verifier EXCEPT !.signature = Rolling(k - 1),
                                             !.id_chain = <<>>]
               IN  /\ verify_caveat(seen, m.caveats[k], m) = Outcome(TRUE, FALSE, seen)
                   /\ verify_caveat(fresh, m.caveats[k], m).verifier.id_chain # <<>>
                   /\ verify_caveat(fresh, m.caveats[k], m).verifier.id_chain[1] = id

\* C6: when no discharge macaroon matches a third-party caveat, or its
\* verifier id does not open under the rolling signature, verify_caveat and
\* verify return Ok(false) and not Err.
UnauthorizedIsFalse ==
    \A k \in 1..Len(m.caveats) :
        LET caveat == m.caveats[k]
            walking == [verifier EXCEPT !.signature = Rolling(k - 1), !.id_chain = <<>>]
            refused == \/ Matching(caveat.id) = {}
                       \/ ~decrypt(Rolling(k - 1), caveat.verifier_id.val).ok
        IN  (IsThirdParty(caveat) /\ refused) =>
                /\ verify_caveat(walking, caveat, m).ok
                /\ ~verify_caveat(walking, caveat, m).val
                /\ (Verified /\ result.key = ckey /\ k = 1) => ReturnsFalse

(***************************************************************************)
(* Parsers on bytes from outside                                           *)
(***************************************************************************)
\* the parser a first byte stands for: '{', 0x02, or an ASCII letter, a
\* digit, '+', '-', '/', '_'; anything else stands for none
RouteOf(b) ==
    IF b = 123 THEN "V2J"
    ELSE IF b = 2 THEN "V2"
    ELSE IF b \in (97..122) \cup (65..90) \cup (48..57) \cup {43, 45, 47, 95} THEN "V1"
    ELSE "unknown"

\* C11: Macaroon::deserialize hands its input to the parser its first byte
\* stands for, answers the unknown-format error exactly when the first byte
\* stands for none, and so hands every output of serialize to the parser of
\* the format that wrote it.
FirstByteSelects ==
    parse.parser = "deserialize" =>
        /\ parse.route = RouteOf(parse.wire.data[1])
        /\ parse.route = "unknown" <=> parse.out = Fail("unknown")
        /\ parse.how = Untouched => parse.route = sent.format

\* C11: deserialize was handed V1 text whose first byte had become '_', and
\* V2 data whose first byte had become '=' .
FirstByteSelectsWitness ==
    /\ parse.parser = "deserialize"
    /\ parse.how.kind = "first"
    /\ \/ parse.wire.data[1] = 95 /\ parse.route = "V1"
       \/ parse.wire.data[1] = 61 /\ parse.out = Fail("unknown")

\* a non-empty identifier, a signature of 32 bytes, an id on every caveat
Structured(macaroon) ==
    /\ macaroon.identifier # <<>>
    /\ Len(macaroon.signature) = 32
    /\ \A k \in 1..Len(macaroon.caveats) : macaroon.caveats[k].id # <<>>

\* C12: the macaroon create returned and the caveat calls have left behind,
\* and every macaroon deserialize returns, has a non-empty identifier, a
\* 32-byte signature and an id on every caveat; create with an empty
\* identifier, add_first_party_caveat with an empty predicate and serialized
\* data that would break this are answered with an error.
StructureKept ==
    /\ made => Structured(m)
    /\ (last.op \in {"create", "first"} /\ last.id = <<>>) => ~last.ok
    /\ parse.parser = "deserialize" =>
           /\ parse.out.kind = "ok" => Structured(parse.out.mac)
           /\ parse.how.kind = "break" => parse.out.kind \in {"err", "unknown"}

\* C16: deserialize_v2j answers an error to every document that has both
\* forms of a field, of the macaroon or of one of its caveats, and to every
\* document without identifier or without signature.
ConflictRejected ==
    (parse.parser = "deserialize_v2j" /\ parse.how.kind \in {"both", "without"})
        => parse.out.kind = "err"

\* C17: deserialize_v2j and Macaroon::deserialize answer an error to every
\* JSON document whose v is a number other than 2.
VersionTwoOnly ==
    (/\ parse.parser \in {"deserialize_v2j", "deserialize"}
     /\ parse.route = "V2J"
     /\ parse.how.kind = "version")
        => parse.out.kind = "err"

\* C18: deserialize_v2 answers an error, and no macaroon, to a wrong version
\* byte, fields out of order, a missing identifier or EOS, a reserved tag in
\* the place of a field's tag, a field longer than the data, and data that
\* ends early, empty data included.
LayoutEnforced ==
    (parse.parser = "deserialize_v2" /\ parse.how # Untouched) => parse.out.kind = "err"

\* C19: serialize_v2 writes the version byte 2, the location field (tag 1)
\* if there is one, the identifier field (tag 2), EOS; per caveat its
\* location (1) if any, id (2), verifier id (4) if any, EOS; one more EOS;
\* the signature field (6); a field being tag, varint(length), value.
LayoutV2 ==
    sent.format = "V2" => sent.wire.data = Flatten(Pieces(sent.of), 1)

\* C19: a macaroon with a 130-byte identifier, a third-party and a
\* first-party caveat has been written as V2.
LayoutV2Witness ==
    /\ sent.format = "V2"
    /\ sent.of.identifier = LongIdentifier
    /\ \E k \in 1..Len(sent.of.caveats) : sent.of.caveats[k].verifier_id.some
    /\ \E k \in 1..Len(sent.of.caveats) : ~sent.of.caveats[k].verifier_id.some

\* the number of base-128 digits of n
RECURSIVE VarintLen(_)
VarintLen(n) == IF n < 128 THEN 1 ELSE 1 + VarintLen(n \div 128)

\* C21: get_field_size on varint_size(n) returns n and leaves the index
\* right behind the varint, for every field length n, those of two and more
\* varint bytes included, in builds with and without overflow checks; a run
\* of more continuation bytes than a usize holds is answered with an error.
VarintInverts ==
    parse.parser = "get_field_size" =>
        /\ parse.how.kind = "size" =>
               parse.read = Read("ok", parse.how.at, VarintLen(parse.how.at))
        /\ parse.how.kind = "continuation" => parse.read.kind = "err"

\* the deviations of V1 text that the parser is to answer with an error
DeviationsV1 == {"empty", "short", "length", "nospace", "signature"}

\* C22: Macaroon::deserialize and deserialize_v1 return an error, and do not
\* abort, on empty input, on data with one to three bytes where a packet
\* header is expected, on a packet whose hex length is below 4 or beyond the
\* data, on a packet without a space, and on a signature packet whose value
\* is shorter than 32 bytes.
TotalV1 ==
    (parse.parser \in {"deserialize", "deserialize_v1"} /\ parse.how.kind \in DeviationsV1)
        => parse.out.kind \in {"err", "unknown"}

(***************************************************************************)
(* Binding, walk state, failed calls                                       *)
(***************************************************************************)
\* C13: bind sets the discharge's signature to HMAC(zeros32, root.signature
\* || the discharge's signature before the call), leaves its location,
\* identifier and caveats and the root as they were, and gives the same
\* result for the same two signatures.
BindSigns ==
    discharge.binds > 0 =>
        /\ discharge.mac.signature
               = hmac(Repeat(0, 32), discharge.root.signature \o discharge.pre.signature)
        /\ discharge.mac.location = discharge.pre.location
        /\ discharge.mac.identifier = discharge.pre.identifier
        /\ discharge.mac.caveats = discharge.pre.caveats
        /\ m = discharge.root
        /\ bind([discharge.root EXCEPT !.identifier = <<111>>, !.caveats = <<>>],
                [discharge.pre EXCEPT !.caveats = <<>>]).signature
               = discharge.mac.signature

\* C13: a discharge with a caveat of its own has been bound to a root with a
\* third-party caveat.
BindSignsWitness ==
    /\ discharge.binds = 1
    /\ discharge.mac.caveats # <<>>
    /\ \E k \in 1..Len(m.caveats) : m.caveats[k].verifier_id.some

\* C14: a second bind to the unchanged root leaves the discharge's signature
\* what the first bind made it.
BindIdempotent ==
    (discharge.binds = 2 /\ m = discharge.root)
        => discharge.mac.signature = discharge.pre.signature

\* C14, amended: a second bind to the unchanged root signs again: the
\* signature becomes HMAC(zeros32, root.signature || the signature the first
\* bind left), which is not the signature the first bind left.
BindSignsAgain ==
    (discharge.binds = 2 /\ m = discharge.root) =>
        /\ discharge.mac.signature
               = hmac(Repeat(0, 32), m.signature \o discharge.pre.signature)
        /\ discharge.mac.signature # discharge.pre.signature

\* C14: a discharge has been bound twice to the same root.
BindSignsAgainWitness ==
    /\ discharge.binds = 2
    /\ m = discharge.root
    /\ discharge.pre.signature = hmac(Repeat(0, 32), m.signature \o
           Chain(ChainStart(DischargeSecret, <<97>>), discharge.mac.caveats, 1))

\* a Verifier that has walked nothing, with the same predicates, callbacks
\* and discharge macaroons
Fresh(v) ==
    [Verifier_new EXCEPT !.predicates = v.predicates,
                         !.callbacks = v.callbacks,
                         !.discharge_macaroons = v.discharge_macaroons]

FailedCallChangesNothing ==
    (last.op \in {"first", "third"} /\ ~last.ok) =>
        /\ m.signature = last.pre
        /\ Len(m.caveats) = Len(added)
        /\ \A k \in 1..Len(added) : m.caveats[k].id = added[k].id

============================================================================
